---- MODULE Spec2Model ----
(***************************************************************************)
(* The deterministic runtime of `simulation`: the in-memory listener       *)
(* (MemoryListener::poll_accept), the fault injector it consults, the mock *)
(* clock and the in-memory network registry.  Times are in milliseconds.   *)
(***************************************************************************)
EXTENDS Integers, Sequences, FiniteSets, TLC

VARIABLES
    now,        \* the mock clock (ms since the runtime started)
    net,        \* the network registry: address -> a sender to a listener is held
    lst,        \* the MemoryListener (or NoListener when none is alive)
    clients,    \* the client streams connect has returned
    nextConn,   \* connections established so far
    last,       \* the last operation and what it returned
    call,       \* the accept call in progress: polls and injector consultations
    hist,       \* the listener's connections: ids pushed to it, ids accept returned
    tape,       \* SpecDet: the raw values the seed's RNG yields, as far as drawn
    runs,       \* SpecDet: two runs of a listener started from that seed
    cfg,        \* SpecExec: the application (the client's target, extra clients)
    ready,      \* SpecExec: the executor's ready queue
    running,    \* SpecExec: the task being polled
    wheel,      \* SpecExec: the timer wheel, in insertion order
    task,       \* SpecExec: each task's position and what it holds
    pipe,       \* SpecExec: per connection, the server-to-client byte pipe
    status,     \* SpecExec: block_on: "running", "done" or "deadlock"
    adv,        \* SpecExec: the last clock advance
    remote      \* SpecExec: the one-shot channel behind a RemoteHandle

lvars == <<now, net, lst, clients, nextConn, last, call, hist>>
dvars == <<tape, runs>>
evars == <<cfg, ready, running, wheel, task, pipe, status, adv, remote>>
vars == <<now, net, lst, clients, nextConn, last, call, hist, tape, runs,
          cfg, ready, running, wheel, task, pipe, status, adv, remote>>

----------------------------------------------------------------------------
\* Bounds of the model.
MaxConns == 2
MaxClock == 1200
RngMod == 3
MaxPolls == 3
MaxExtra == 1
MaxExecClock == 11000

\* Program constants.
AcceptDelayPercent == 10
AcceptDelayMinMs == 100
AcceptDelayMaxMs == 10000
RetrySecs == 1
HandlerDelaySecs == 1

----------------------------------------------------------------------------
\* Addresses.
Addr(port) == [ip |-> "127.0.0.1", port |-> port]
ListenAddr == Addr(8080)
UnboundAddr == Addr(9999)
Addrs == {ListenAddr, UnboundAddr}
ephemeral_addr(n) == Addr(49152 + n)
NoAddr == Addr(0)

\* Option<tokio::timer::Delay>.
NoDelay == [some |-> FALSE, deadline |-> 0]
SomeDelay(d) == [some |-> TRUE, deadline |-> d]

\* Sockets: the two endpoints of one connection.
NoSocket == [conn |-> 0, local_addr |-> NoAddr, peer_addr |-> NoAddr]
ServerSocket(n, listen, client) ==
    [conn |-> n, local_addr |-> listen, peer_addr |-> client]
ClientSocket(n, listen, client) ==
    [conn |-> n, local_addr |-> client, peer_addr |-> listen]

\* The u32 TTL, as its two 16-bit halves.
U32(hi, lo) == <<hi, lo>>
U32Max == U32(65535, 65535)
TtlValues == {U32(0, 64), U32Max}

----------------------------------------------------------------------------
\* The seedable RNG (C1 of the design) on raw values 0 .. RngMod-1.
RngValues == 0 .. (RngMod - 1)

next_bool(r, percent) == r * 100 < percent * RngMod

next_duration(r, lo, hi) == lo + (r * (hi - lo - 1)) \div (RngMod - 1)

\* The fault injector: one Bernoulli draw, then one duration draw if it hit.
\* env holds the next two raw values of the RNG; draws counts those consumed.
maybe_random_delay(env, clock, percent, lo, hi) ==
    IF next_bool(env.r1, percent)
    THEN [opt |-> SomeDelay(clock + next_duration(env.r2, lo, hi)), draws |-> 2]
    ELSE [opt |-> NoDelay, draws |-> 1]

\* tokio Delay on the mock clock: complete at or after the deadline.
delay_poll(d, clock) == IF clock >= d.deadline THEN "Ready" ELSE "Pending"

----------------------------------------------------------------------------
\* futures::channel::mpsc::Receiver<ServerSocket>: the queue, whether a sender
\* is still alive, and the task registered to be woken.
Task(kind, n) == [kind |-> kind, n |-> n]
NoTask == Task("none", 0)
ServerTask == Task("server", 0)
Channel(q, open, waker) == [queue |-> q, open |-> open, recv_task |-> waker]

mpsc_poll_next(ch, cx) ==
    IF ch.queue # <<>>
    THEN [poll |-> "Ready", some |-> TRUE, item |-> Head(ch.queue),
          chan |-> [ch EXCEPT !.queue = Tail(ch.queue)]]
    ELSE IF ~ch.open
    THEN [poll |-> "Ready", some |-> FALSE, item |-> NoSocket, chan |-> ch]
    ELSE [poll |-> "Pending", some |-> FALSE, item |-> NoSocket,
          chan |-> [ch EXCEPT !.recv_task = cx]]

----------------------------------------------------------------------------
\* MemoryListener.
NoListener == [alive |-> FALSE, new_sockets |-> Channel(<<>>, FALSE, NoTask),
               local_addr |-> NoAddr, ttl |-> U32Max, delay |-> NoDelay]

MemoryListener_new(addr) ==
    [alive |-> TRUE, new_sockets |-> Channel(<<>>, TRUE, NoTask),
     local_addr |-> addr, ttl |-> U32Max, delay |-> NoDelay]

\* MemoryTcpStream::new_server wraps the socket.
new_server(sock) == sock

\* Poll<io::Result<(stream, addr)>>.
Pending == [kind |-> "Pending", stream |-> NoSocket, addr |-> NoAddr]
ReadyOk(stream, addr) == [kind |-> "Ok", stream |-> stream, addr |-> addr]
ReadyErr(e) == [kind |-> e, stream |-> NoSocket, addr |-> NoAddr]

\* Mutant of take_or_inject: the listener's TTL decides whether the injector
\* is consulted.
take_or_inject_by_ttl(self, env, clock) ==
    IF ~self.delay.some /\ self.ttl = U32Max
    THEN LET m == maybe_random_delay(env, clock, AcceptDelayPercent,
                                     AcceptDelayMinMs, AcceptDelayMaxMs)
         IN  [self |-> [self EXCEPT !.delay = m.opt], consulted |-> TRUE,
              draws |-> m.draws, dropped |-> NoDelay]
    ELSE [self |-> [self EXCEPT !.delay = NoDelay], consulted |-> FALSE,
          draws |-> 0, dropped |-> self.delay]

\* Mutant of take_or_inject: a stored delay is left in place.
take_or_inject_keep(self, env, clock) ==
    IF ~self.delay.some
    THEN LET m == maybe_random_delay(env, clock, AcceptDelayPercent,
                                     AcceptDelayMinMs, AcceptDelayMaxMs)
         IN  [self |-> [self EXCEPT !.delay = m.opt], consulted |-> TRUE,
              draws |-> m.draws, dropped |-> NoDelay]
    ELSE [self |-> self, consulted |-> FALSE, draws |-> 0, dropped |-> NoDelay]

\* Mutant of take_or_inject: the injector is asked for a delay from zero up.
take_or_inject_no_floor(self, env, clock) ==
    IF ~self.delay.some
    THEN LET m == maybe_random_delay(env, clock, AcceptDelayPercent,
                                     0, AcceptDelayMaxMs)
         IN  [self |-> [self EXCEPT !.delay = m.opt], consulted |-> TRUE,
              draws |-> m.draws, dropped |-> NoDelay]
    ELSE [self |-> [self EXCEPT !.delay = NoDelay], consulted |-> FALSE,
          draws |-> 0, dropped |-> self.delay]

\* poll_accept, first block: `if let None = self.delay.take()`.  The take
\* empties the field; a delay found there is dropped unpolled, and only an
\* empty field consults the injector.
take_or_inject(self, env, clock) ==
    IF ~self.delay.some
    THEN LET m == maybe_random_delay(env, clock, AcceptDelayPercent,
                                     AcceptDelayMinMs, AcceptDelayMaxMs)
         IN  [self |-> [self EXCEPT !.delay = m.opt], consulted |-> TRUE,
              draws |-> m.draws, dropped |-> NoDelay]
    ELSE [self |-> [self EXCEPT !.delay = NoDelay], consulted |-> FALSE,
          draws |-> 0, dropped |-> self.delay]

\* poll_accept, second block: poll the delay; a pending one is stored back.
\* Neither outcome returns from poll_accept.
pause_for_delay(self, clock) ==
    IF self.delay.some
    THEN IF delay_poll(self.delay, clock) = "Pending"
         THEN [self |-> self, polled |-> TRUE, registered |-> self.delay]
         ELSE [self |-> [self EXCEPT !.delay = NoDelay], polled |-> TRUE,
               registered |-> NoDelay]
    ELSE [self |-> self, polled |-> FALSE, registered |-> NoDelay]

\* Mutant of poll_new_sockets: the head of the queue is returned but stays
\* queued.
poll_new_sockets_keep_head(self, cx) ==
    LET r == mpsc_poll_next(self.new_sockets, cx)
    IN  IF r.poll = "Pending" THEN [self |-> self, result |-> Pending]
        ELSE IF r.some
        THEN [self |-> self, result |-> ReadyOk(new_server(r.item), r.item.peer_addr)]
        ELSE [self |-> self, result |-> ReadyErr("BrokenPipe")]

\* Mutant of poll_new_sockets: an empty channel is taken for a closed one.
poll_new_sockets_empty_is_closed(self, cx) ==
    LET r == mpsc_poll_next(self.new_sockets, cx)
        s == [self EXCEPT !.new_sockets = r.chan]
    IN  IF r.some
        THEN [self |-> s, result |-> ReadyOk(new_server(r.item), r.item.peer_addr)]
        ELSE [self |-> s, result |-> ReadyErr("BrokenPipe")]

\* Mutant of poll_new_sockets: the listener's own address is returned.
poll_new_sockets_local_addr(self, cx) ==
    LET r == mpsc_poll_next(self.new_sockets, cx)
        s == [self EXCEPT !.new_sockets = r.chan]
    IN  IF r.poll = "Pending" THEN [self |-> s, result |-> Pending]
        ELSE IF r.some
        THEN [self |-> s, result |-> ReadyOk(new_server(r.item), self.local_addr)]
        ELSE [self |-> s, result |-> ReadyErr("BrokenPipe")]

\* poll_accept, third block: poll the inbound channel.
poll_new_sockets(self, cx) ==
    LET r == mpsc_poll_next(self.new_sockets, cx)
        s == [self EXCEPT !.new_sockets = r.chan]
    IN  IF r.poll = "Pending" THEN [self |-> s, result |-> Pending]
        ELSE IF r.some
        THEN [self |-> s, result |-> ReadyOk(new_server(r.item), r.item.peer_addr)]
        ELSE [self |-> s, result |-> ReadyErr("BrokenPipe")]

\* Mutant of poll_accept: the inbound channel is polled without the task's
\* waker.
poll_accept_no_waker(self, cx, env, clock) ==
    LET a == take_or_inject(self, env, clock)
        b == pause_for_delay(a.self, clock)
        c == poll_new_sockets(b.self, NoTask)
    IN  [self |-> c.self, result |-> c.result, consulted |-> a.consulted,
         draws |-> a.draws, injected |-> IF a.consulted THEN a.self.delay ELSE NoDelay,
         dropped |-> a.dropped, polled |-> b.polled, registered |-> b.registered]

poll_accept(self, cx, env, clock) ==
    LET a == take_or_inject(self, env, clock)
        b == pause_for_delay(a.self, clock)
        c == poll_new_sockets(b.self, cx)
    IN  [self |-> c.self, result |-> c.result, consulted |-> a.consulted,
         draws |-> a.draws, injected |-> IF a.consulted THEN a.self.delay ELSE NoDelay,
         dropped |-> a.dropped, polled |-> b.polled, registered |-> b.registered]

\* Poll<Option<io::Result<MemoryTcpStream>>>, the item type of Incoming.
PollPending == [poll |-> "Pending", some |-> FALSE, ok |-> FALSE,
                stream |-> NoSocket, err |-> "none"]
PollNone == [poll |-> "Ready", some |-> FALSE, ok |-> FALSE,
             stream |-> NoSocket, err |-> "none"]
PollSomeOk(stream) == [poll |-> "Ready", some |-> TRUE, ok |-> TRUE,
                       stream |-> stream, err |-> "none"]
PollSomeErr(e) == [poll |-> "Ready", some |-> TRUE, ok |-> FALSE,
                   stream |-> NoSocket, err |-> e]

\* Mutant of poll_next: an error from accept ends the stream.
poll_next_ends_on_error(self, cx, env, clock) ==
    LET r == poll_accept(self, cx, env, clock)
    IN  [self |-> r.self, draws |-> r.draws,
         item |-> IF r.result.kind = "Pending" THEN PollPending
                  ELSE IF r.result.kind = "Ok" THEN PollSomeOk(r.result.stream)
                  ELSE PollNone]

\* Incoming::poll_next: ready!(inner.poll_accept(cx))?, then Some(Ok(sock));
\* the `?` turns an Err into Ready(Some(Err(e))).  self is the inner listener.
poll_next(self, cx, env, clock) ==
    LET r == poll_accept(self, cx, env, clock)
    IN  [self |-> r.self, draws |-> r.draws,
         item |-> IF r.result.kind = "Pending" THEN PollPending
                  ELSE IF r.result.kind = "Ok" THEN PollSomeOk(r.result.stream)
                  ELSE PollSomeErr(r.result.kind)]

ttl(self) == self.ttl

\* Mutant of set_ttl: storing the TTL also clears the stored delay.
set_ttl_clears_delay(self, v) == [self EXCEPT !.ttl = v, !.delay = NoDelay]

set_ttl(self, v) == [self EXCEPT !.ttl = v]

----------------------------------------------------------------------------
\* The in-memory network (C6 of the design).
NoNet == [a \in Addrs |-> FALSE]

\* Mutant of bind: a bound address is bound again.
bind_overwrite(registry, addr) ==
    [net |-> [registry EXCEPT ![addr] = TRUE], ok |-> TRUE, err |-> "none"]

bind(registry, addr) ==
    IF registry[addr]
    THEN [net |-> registry, ok |-> FALSE, err |-> "AddressInUse"]
    ELSE [net |-> [registry EXCEPT ![addr] = TRUE], ok |-> TRUE, err |-> "none"]

connect(registry, listener, addr, n) ==
    IF registry[addr] /\ listener.alive /\ listener.local_addr = addr
       /\ listener.new_sockets.open
    THEN LET ca == ephemeral_addr(n) IN
         [ok |-> TRUE, err |-> "none",
          client |-> ClientSocket(n, addr, ca),
          listener |-> [listener EXCEPT !.new_sockets.queue =
                            Append(@, ServerSocket(n, addr, ca))]]
    ELSE [ok |-> FALSE, err |-> "ConnectionRefused", client |-> NoSocket,
          listener |-> listener]

----------------------------------------------------------------------------
\* The application of SpecExec: the documented example.  The root future
\* spawns the server and runs the client; cfg.extra further clients are
\* spawned after the server.  Each accepted connection gets a handler task.
ClientTask(i) == Task("client", i)
HandlerTask(n) == Task("handle", n)
RootTask == ClientTask(1)
ClientTasks == {ClientTask(i) : i \in 1 .. (1 + MaxExtra)}
HandlerTasks == {HandlerTask(n) : n \in 1 .. (1 + MaxExtra)}
WaiterTask == Task("waiter", 0)
RemoteTask == Task("remote", 0)
Tasks == {ServerTask, WaiterTask, RemoteTask} \cup ClientTasks \cup HandlerTasks

\* What the future handed to spawn_with_result may return, and how long it
\* may sleep first.
OutputValues == {1, 2}
WaitValues == {0, RetrySecs * 1000}

Greeting == "Hello World!"

\* Mutant of ExpectedLine: the line example::client asserts.
ExpectedLine_example == "Hello world!"

\* The line the client asserts it read.
ExpectedLine == "Hello World!"

NoSend == [done |-> FALSE, started |-> 0, at |-> 0]
NoSleep == [done |-> FALSE, before |-> 0, dur |-> 0, after |-> 0]
Task0 == [pc |-> "idle", conn |-> 0, delay |-> NoDelay, before |-> 0,
          slept |-> NoSleep, line |-> "", value |-> 0, sent |-> NoSend]
Pipe0 == [buf |-> <<>>, closed |-> FALSE, reader |-> NoTask]
NoAdvance == [count |-> 0, from |-> 0, to |-> 0, woken |-> <<>>, skipped |-> FALSE]

\* Environment::delay and delay_from.
delay(deadline) == SomeDelay(deadline)

\* Mutant of delay_from: the duration is taken for the deadline.
delay_from_epoch(clock, from_now) == delay(from_now)

delay_from(clock, from_now) == delay(clock + from_now)

\* The timer wheel (C3 of the design): entries in insertion order; a dropped
\* delay leaves its entry behind, cancelled.
TimerEntry(d, w) == [deadline |-> d, waker |-> w, cancelled |-> FALSE]

wheel_insert(wh, d, w) ==
    IF \E i \in DOMAIN wh : wh[i] = TimerEntry(d, w)
    THEN wh
    ELSE Append(wh, TimerEntry(d, w))

wheel_cancel(wh, d, w) ==
    [i \in DOMAIN wh |->
        IF wh[i].deadline = d /\ wh[i].waker = w
        THEN [wh[i] EXCEPT !.cancelled = TRUE]
        ELSE wh[i]]

SetMin(S) == CHOOSE x \in S : \A y \in S : x <= y

PendingDeadlines(wh) ==
    {wh[i].deadline : i \in {j \in DOMAIN wh : ~wh[j].cancelled}}

AllDeadlines(wh) == {wh[i].deadline : i \in DOMAIN wh}

\* Mutant of peek_earliest: cancelled entries count.
peek_earliest_any(wh) ==
    IF AllDeadlines(wh) = {} THEN [some |-> FALSE, instant |-> 0]
    ELSE [some |-> TRUE, instant |-> SetMin(AllDeadlines(wh))]

peek_earliest(wh) ==
    IF PendingDeadlines(wh) = {} THEN [some |-> FALSE, instant |-> 0]
    ELSE [some |-> TRUE, instant |-> SetMin(PendingDeadlines(wh))]

IsDue(e, t) == e.deadline <= t
IsLive(e) == ~e.cancelled

\* The wakers of the entries due at t, in insertion order.
pop_ready(wh, t) ==
    LET due == SelectSeq(wh, LAMBDA e : IsDue(e, t) /\ IsLive(e))
    IN  [i \in DOMAIN due |-> due[i].waker]

wheel_after(wh, t) == SelectSeq(wh, LAMBDA e : ~IsDue(e, t))

\* The ready queue: a woken task is queued once.
InQueue(q, t) == \E i \in DOMAIN q : q[i] = t

wake(q, t) == IF t = NoTask \/ InQueue(q, t) THEN q ELSE Append(q, t)

RECURSIVE wake_all(_, _)
wake_all(q, ts) == IF ts = <<>> THEN q ELSE wake_all(wake(q, Head(ts)), Tail(ts))

\* Environment::spawn: the task joins the ready queue.
spawn(q, t) == Append(q, t)

\* Mutant of spawn_with_result: the wrapped future is spawned twice.
spawn_with_result_twice(q, t) == [ready |-> spawn(spawn(q, t), t), handle |-> t]

\* spawn_with_result: wrap the future with a one-shot channel
\* (remote_handle), spawn the sending half, return the receiving half.
spawn_with_result(q, t) == [ready |-> spawn(q, t), handle |-> t]

\* The one-shot channel: whether the output was sent, the output, the task
\* waiting for it, and how often the sending half was spawned.
NoRemote == [sent |-> FALSE, value |-> 0, rx_task |-> NoTask, spawned |-> 0]

\* How often task t was appended going from queue q to queue q2.
Occurrences(q, t) == Cardinality({i \in DOMAIN q : q[i] = t})

\* Mutant of quiescent: a non-empty ready queue does not hold time back.
quiescent_ignoring_ready(q, run) == run = NoTask

\* No task is runnable.
quiescent(q, run) == q = <<>> /\ run = NoTask

----------------------------------------------------------------------------
\* What the last operation did.
NoCall == [polls |-> 0, consults |-> 0]
NoHist == [pushed |-> <<>>, accepted |-> <<>>]
NoLast == [op |-> "none", result |-> Pending, addr |-> NoAddr,
           wasOpen |-> FALSE, wasQueued |-> 0, wasHead |-> NoSocket,
           consulted |-> FALSE, injected |-> NoDelay,
           hadDelay |-> FALSE, droppedStored |-> FALSE, polled |-> FALSE,
           clockBefore |-> 0, netBefore |-> NoNet,
           lstBefore |-> NoListener, afterRefused |-> FALSE, call |-> NoCall]

\* One run of SpecDet: a listener bound at ListenAddr, its clock, its cursor
\* into the RNG's values, and what its last step drew and returned.
NoDraw == [consulted |-> FALSE, injected |-> NoDelay]
\* What ttl() is due to return: u32::MAX until set_ttl is called, then the
\* value of the most recent set_ttl.
FreshTtl == U32Max
\* Runs 1 and 2 call accept; run 3 polls the same listener as an Incoming.
AcceptRuns == 1 .. 2
IncomingRun == 3
DetRuns == AcceptRuns \cup {IncomingRun}
Run0 == [lst |-> MemoryListener_new(ListenAddr), clock |-> 0, pos |-> 0,
         arrivals |-> 0, polls |-> 0, out |-> Pending, drawn |-> NoDraw,
         ttlDue |-> FreshTtl, item |-> PollPending]

InitL ==
    /\ now = 0
    /\ net = NoNet
    /\ lst = NoListener
    /\ clients = {}
    /\ nextConn = 0
    /\ last = NoLast
    /\ call = NoCall
    /\ hist = NoHist

InitD ==
    /\ tape = <<>>
    /\ runs = [i \in DetRuns |-> Run0]

\* The root future: the test's async block ("greet", which goes on as the
\* first client) or, in example::main ("serve"), the server itself.
RootOf(c) ==
    IF c.app = "serve" THEN ServerTask
    ELSE IF c.app = "spawn" THEN WaiterTask
    ELSE RootTask

\* The executor before block_on: the root future alone is ready.
InitE(app, target, extra, value, wait) ==
    /\ cfg = [app |-> app, target |-> target, extra |-> extra,
              value |-> value, wait |-> wait]
    /\ remote = NoRemote
    /\ ready = <<RootOf(cfg)>>
    /\ running = NoTask
    /\ wheel = <<>>
    /\ task = [t \in Tasks |->
                  IF t # RootOf(cfg) THEN Task0
                  ELSE [Task0 EXCEPT !.pc = IF app = "serve" THEN "bind" ELSE "start"]]
    /\ pipe = [n \in 1 .. (1 + MaxExtra) |-> Pipe0]
    /\ status = "running"
    /\ adv = NoAdvance

Init == InitL /\ InitD /\ InitE("greet", ListenAddr, 0, 0, 0)

InitExec ==
    /\ InitL /\ InitD
    /\ \/ \E target \in Addrs, extra \in 0 .. MaxExtra :
            InitE("greet", target, extra, 0, 0)
       \/ InitE("serve", ListenAddr, 0, 0, 0)
       \/ \E value \in OutputValues, wait \in WaitValues :
            InitE("spawn", ListenAddr, 0, value, wait)

\* Environment::bind(addr)
Bind(a) ==
    /\ lst.alive => net[a]
    /\ LET r == bind(net, a) IN
       /\ net' = r.net
       /\ lst' = IF r.ok THEN MemoryListener_new(a) ELSE lst
       /\ call' = IF r.ok THEN NoCall ELSE call
       /\ hist' = IF r.ok THEN NoHist ELSE hist
       /\ last' = [NoLast EXCEPT !.op = "bind", !.addr = a,
                       !.result = IF r.ok THEN ReadyOk(NoSocket, a) ELSE ReadyErr(r.err),
                       !.clockBefore = now, !.netBefore = net, !.lstBefore = lst,
                       !.afterRefused = (last.op = "connect"
                                         /\ last.result.kind = "ConnectionRefused")]
    /\ UNCHANGED <<now, clients, nextConn>>
    /\ UNCHANGED <<dvars, evars>>

\* Environment::connect(addr)
Connect(a) ==
    /\ nextConn < MaxConns
    /\ LET r == connect(net, lst, a, nextConn + 1) IN
       /\ lst' = r.listener
       /\ clients' = IF r.ok THEN clients \cup {r.client} ELSE clients
       /\ nextConn' = IF r.ok THEN nextConn + 1 ELSE nextConn
       /\ hist' = IF r.ok THEN [hist EXCEPT !.pushed = Append(@, r.client.conn)]
                  ELSE hist
       /\ last' = [NoLast EXCEPT !.op = "connect", !.addr = a,
                       !.result = IF r.ok THEN ReadyOk(r.client, a) ELSE ReadyErr(r.err),
                       !.clockBefore = now, !.netBefore = net, !.lstBefore = lst]
    /\ UNCHANGED <<now, net, call>>
    /\ UNCHANGED <<dvars, evars>>

\* One poll of listener.accept().
PollAccept ==
    /\ lst.alive
    /\ call.polls < MaxPolls
    /\ \E r1 \in RngValues, r2 \in RngValues :
         LET r == poll_accept(lst, ServerTask, [r1 |-> r1, r2 |-> r2], now)
             c == [polls |-> call.polls + 1,
                   consults |-> call.consults + (IF r.consulted THEN 1 ELSE 0)]
         IN /\ lst' = r.self
            /\ last' = [NoLast EXCEPT !.op = "poll", !.result = r.result,
                            !.addr = r.result.addr,
                            !.wasOpen = lst.new_sockets.open,
                            !.wasQueued = Len(lst.new_sockets.queue),
                            !.wasHead = IF lst.new_sockets.queue = <<>> THEN NoSocket
                                        ELSE Head(lst.new_sockets.queue),
                            !.consulted = r.consulted,
                            !.injected = r.injected,
                            !.hadDelay = lst.delay.some,
                            !.droppedStored = (r.dropped = lst.delay),
                            !.polled = r.polled,
                            !.clockBefore = now, !.netBefore = net, !.call = c]
            /\ call' = IF r.result.kind = "Pending" THEN c ELSE NoCall
            /\ hist' = IF r.result.kind = "Ok"
                       THEN [hist EXCEPT !.accepted = Append(@, r.result.stream.conn)]
                       ELSE hist
    /\ UNCHANGED <<now, net, clients, nextConn>>
    /\ UNCHANGED <<dvars, evars>>

\* The network lets go of the listener's sender while the listener lives.
CloseChannel ==
    /\ lst.alive /\ lst.new_sockets.open
    /\ net' = [net EXCEPT ![lst.local_addr] = FALSE]
    /\ lst' = [lst EXCEPT !.new_sockets.open = FALSE]
    /\ last' = [NoLast EXCEPT !.op = "close", !.clockBefore = now, !.netBefore = net]
    /\ UNCHANGED <<now, clients, nextConn, hist, call>>
    /\ UNCHANGED <<dvars, evars>>

\* The listener is dropped: its entry leaves the registry.
DropListener ==
    /\ lst.alive
    /\ net' = [net EXCEPT ![lst.local_addr] = FALSE]
    /\ lst' = NoListener
    /\ call' = NoCall
    /\ last' = [NoLast EXCEPT !.op = "drop", !.clockBefore = now, !.netBefore = net]
    /\ UNCHANGED <<now, clients, nextConn, hist>>
    /\ UNCHANGED <<dvars, evars>>

\* The executor moves the clock: to the listener's pending deadline, or to
\* the deadline of some other task's one-second timer.
AdvanceTime ==
    /\ \E t \in {lst.delay.deadline, now + RetrySecs * 1000} :
         /\ t > now /\ t <= MaxClock
         /\ now' = t
    /\ last' = [NoLast EXCEPT !.op = "advance", !.clockBefore = now, !.netBefore = net]
    /\ UNCHANGED <<net, lst, clients, nextConn, hist, call>>
    /\ UNCHANGED <<dvars, evars>>

SetTtl(v) ==
    /\ lst.alive
    /\ lst' = set_ttl(lst, v)
    /\ last' = [NoLast EXCEPT !.op = "set_ttl", !.clockBefore = now, !.netBefore = net]
    /\ UNCHANGED <<now, net, clients, nextConn, hist, call>>
    /\ UNCHANGED <<dvars, evars>>

Next ==
    \/ \E a \in {ListenAddr} : Bind(a)
    \/ \E a \in Addrs : Connect(a)
    \/ PollAccept
    \/ CloseChannel
    \/ DropListener
    \/ AdvanceTime
    \/ \E v \in TtlValues : SetTtl(v)

Spec == Init /\ [][Next]_vars

----------------------------------------------------------------------------
\* SpecDet: two listeners started from the same seed and clock, driven in
\* lockstep by the same polls, arrivals, closures and time advances.  The
\* seed fixes the RNG's values: tape holds those drawn so far and each run
\* reads it at its own cursor.  The TTL is set on either run alone.
Max2(a, b) == IF a >= b THEN a ELSE b

DetEnv(t, pos) == [r1 |-> t[pos + 1], r2 |-> t[pos + 2]]

DetPollRun(run, t) ==
    LET r == poll_accept(run.lst, ServerTask, DetEnv(t, run.pos), run.clock)
    IN  [run EXCEPT !.lst = r.self, !.pos = @ + r.draws, !.polls = @ + 1,
                    !.out = r.result,
                    !.drawn = [consulted |-> r.consulted, injected |-> r.injected]]

DetPollNextRun(run, t) ==
    LET r == poll_next(run.lst, ServerTask, DetEnv(t, run.pos), run.clock)
    IN  [run EXCEPT !.lst = r.self, !.pos = @ + r.draws, !.polls = @ + 1,
                    !.item = r.item]

DetPoll ==
    /\ \A i \in DetRuns : runs[i].polls < MaxPolls
    /\ LET need == Max2(Max2(runs[1].pos, runs[2].pos), runs[IncomingRun].pos) + 2 IN
       \E ext \in [1 .. (need - Len(tape)) -> RngValues] :
          LET t == tape \o ext IN
          /\ tape' = t
          /\ runs' = [i \in DetRuns |->
                         IF i = IncomingRun THEN DetPollNextRun(runs[i], t)
                         ELSE DetPollRun(runs[i], t)]
    /\ UNCHANGED <<lvars, evars>>

DetArriveRun(run) ==
    LET r == connect([NoNet EXCEPT ![ListenAddr] = TRUE], run.lst, ListenAddr,
                     run.arrivals + 1)
    IN  [run EXCEPT !.lst = r.listener,
                    !.arrivals = IF r.ok THEN @ + 1 ELSE @,
                    !.out = Pending, !.drawn = NoDraw,
                    !.item = PollPending]

DetArrive ==
    /\ \A i \in DetRuns : runs[i].arrivals < MaxConns
    /\ \E i \in DetRuns : runs[i].lst.new_sockets.open
    /\ runs' = [i \in DetRuns |-> DetArriveRun(runs[i])]
    /\ UNCHANGED <<lvars, tape, evars>>

DetClose ==
    /\ \E i \in DetRuns : runs[i].lst.new_sockets.open
    /\ runs' = [i \in DetRuns |->
                   [runs[i] EXCEPT !.lst.new_sockets.open = FALSE,
                                   !.out = Pending, !.drawn = NoDraw,
                                   !.item = PollPending]]
    /\ UNCHANGED <<lvars, tape, evars>>

DetAdvance ==
    /\ \E t \in {runs[1].lst.delay.deadline, runs[2].lst.delay.deadline,
                  runs[1].clock + RetrySecs * 1000} :
         /\ \A i \in DetRuns : t > runs[i].clock
         /\ t <= MaxClock
         /\ runs' = [i \in DetRuns |->
                        [runs[i] EXCEPT !.clock = t, !.out = Pending, !.drawn = NoDraw,
                                        !.item = PollPending]]
    /\ UNCHANGED <<lvars, tape, evars>>

DetSetTtl(i, v) ==
    /\ ttl(runs[i].lst) # v
    /\ runs' = [runs EXCEPT ![i].lst = set_ttl(@, v),
                            ![i].ttlDue = v]
    /\ UNCHANGED <<lvars, tape, evars>>

NextDet ==
    \/ DetPoll
    \/ DetArrive
    \/ DetClose
    \/ DetAdvance
    \/ \E i \in AcceptRuns, v \in TtlValues : DetSetTtl(i, v)

SpecDet == Init /\ [][NextDet]_vars

----------------------------------------------------------------------------
\* SpecExec: block_on(root) on the cooperative executor.  A task runs from
\* its dispatch to its next Pending; time moves only between tasks.
Yield == running' = NoTask

\* The root future's first poll: spawn the server (and the extra clients),
\* then go on as the client.
RootStart ==
    /\ status = "running" /\ running = RootTask /\ task[RootTask].pc = "start"
    /\ ready' = ready \o <<ServerTask>> \o [i \in 1 .. cfg.extra |-> ClientTask(i + 1)]
    /\ task' = [t \in Tasks |->
                   IF t = ServerTask THEN [task[t] EXCEPT !.pc = "bind"]
                   ELSE IF t \in ClientTasks /\ t.n <= 1 + cfg.extra
                   THEN [task[t] EXCEPT !.pc = "connect"]
                   ELSE task[t]]
    /\ UNCHANGED <<lvars, dvars, cfg, running, wheel, pipe, status, adv, remote>>

\* The executor takes the next ready task.
Dispatch ==
    /\ status = "running" /\ running = NoTask /\ ready # <<>>
    /\ running' = Head(ready)
    /\ ready' = Tail(ready)
    /\ UNCHANGED <<lvars, dvars, cfg, wheel, task, pipe, status, adv, remote>>

\* client: env.connect(addr).await; a refused connect starts a one-second
\* delay_from.
ClientConnect(c) ==
    /\ status = "running" /\ running = c /\ task[c].pc = "connect"
    /\ LET r == connect(net, lst, cfg.target, nextConn + 1) IN
       IF r.ok
       THEN /\ lst' = [r.listener EXCEPT !.new_sockets.recv_task = NoTask]
            /\ ready' = wake(ready, lst.new_sockets.recv_task)
            /\ clients' = clients \cup {r.client}
            /\ nextConn' = nextConn + 1
            /\ hist' = [hist EXCEPT !.pushed = Append(@, r.client.conn)]
            /\ task' = [task EXCEPT ![c].pc = "read", ![c].conn = r.client.conn]
       ELSE /\ task' = [task EXCEPT ![c].pc = "sleep",
                                    ![c].before = now,
                                    ![c].delay = delay_from(now, RetrySecs * 1000)]
            /\ UNCHANGED <<lst, ready, clients, nextConn, hist>>
    /\ UNCHANGED <<now, net, last, call, dvars, cfg, running, wheel, pipe, status, adv, remote>>

\* client: env.delay_from(1 s).await, then `continue`.
ClientSleep(c) ==
    /\ status = "running" /\ running = c /\ task[c].pc = "sleep"
    /\ IF delay_poll(task[c].delay, now) = "Pending"
       THEN /\ wheel' = wheel_insert(wheel, task[c].delay.deadline, c)
            /\ Yield
            /\ UNCHANGED task
       ELSE /\ task' = [task EXCEPT ![c].pc = "connect", ![c].delay = NoDelay,
                                    ![c].slept = [done |-> TRUE, before |-> task[c].before,
                                                  dur |-> RetrySecs * 1000, after |-> now]]
            /\ UNCHANGED <<wheel, running>>
    /\ UNCHANGED <<lvars, dvars, cfg, ready, pipe, status, adv, remote>>

\* client: transport.next().await.unwrap().unwrap(), the assert, return.
ClientRead(c) ==
    /\ status = "running" /\ running = c /\ task[c].pc = "read"
    /\ LET p == pipe[task[c].conn] IN
       IF p.buf # <<>>
       THEN /\ pipe' = [pipe EXCEPT ![task[c].conn].buf = Tail(@)]
            /\ task' = [task EXCEPT ![c].line = Head(p.buf),
                                    ![c].pc = IF Head(p.buf) = ExpectedLine THEN "done"
                                              ELSE "panicked"]
            /\ status' = IF c # RootTask THEN status
                          ELSE IF Head(p.buf) = ExpectedLine THEN "done" ELSE "panicked"
            /\ Yield
       ELSE IF p.closed
       THEN /\ task' = [task EXCEPT ![c].pc = "panicked"]
            /\ status' = IF c = RootTask THEN "panicked" ELSE status
            /\ Yield
            /\ UNCHANGED pipe
       ELSE /\ pipe' = [pipe EXCEPT ![task[c].conn].reader = c]
            /\ Yield
            /\ UNCHANGED <<task, status>>
    /\ UNCHANGED <<lvars, dvars, cfg, ready, wheel, adv, remote>>

\* server: env.bind(addr).await?
ServerBind ==
    /\ status = "running" /\ running = ServerTask /\ task[ServerTask].pc = "bind"
    /\ LET r == bind(net, ListenAddr) IN
       /\ net' = r.net
       /\ IF r.ok
          THEN /\ lst' = MemoryListener_new(ListenAddr)
               /\ task' = [task EXCEPT ![ServerTask].pc = "accept"]
               /\ UNCHANGED running
          ELSE /\ task' = [task EXCEPT ![ServerTask].pc = "panicked"]
               /\ Yield
               /\ UNCHANGED lst
       /\ status' = IF ~r.ok /\ RootOf(cfg) = ServerTask THEN "panicked" ELSE status
       /\ hist' = IF r.ok THEN NoHist ELSE hist
    /\ UNCHANGED <<now, clients, nextConn, last, call, dvars, cfg, ready, wheel,
                   pipe, adv, remote>>

\* server: one poll of listener.accept(); Ok spawns the handler and loops.
ServerAccept ==
    /\ status = "running" /\ running = ServerTask /\ task[ServerTask].pc = "accept"
    /\ \E r1 \in RngValues, r2 \in RngValues :
         LET r == poll_accept(lst, ServerTask, [r1 |-> r1, r2 |-> r2], now)
             w1 == IF r.dropped.some
                   THEN wheel_cancel(wheel, r.dropped.deadline, ServerTask)
                   ELSE wheel
             w2 == IF r.registered.some
                   THEN wheel_insert(w1, r.registered.deadline, ServerTask)
                   ELSE w1
             h == HandlerTask(r.result.stream.conn)
         IN /\ lst' = r.self
            /\ wheel' = w2
            /\ hist' = IF r.result.kind = "Ok"
                       THEN [hist EXCEPT !.accepted = Append(@, r.result.stream.conn)]
                       ELSE hist
            /\ CASE r.result.kind = "Pending" ->
                      /\ Yield
                      /\ UNCHANGED <<task, ready>>
                 [] r.result.kind = "Ok" ->
                      /\ task' = [task EXCEPT ![h].pc = "run",
                                              ![h].conn = r.result.stream.conn]
                      /\ ready' = Append(ready, h)
                      /\ UNCHANGED running
                 [] OTHER ->
                      /\ task' = [task EXCEPT ![ServerTask].pc = "done"]
                      /\ Yield
                      /\ UNCHANGED ready
            /\ status' = IF r.result.kind \notin {"Pending", "Ok"}
                             /\ RootOf(cfg) = ServerTask
                          THEN "done" ELSE status
    /\ UNCHANGED <<now, net, clients, nextConn, last, call, dvars, cfg, pipe, adv, remote>>

\* handle: delay_from(1 s) is built and dropped unawaited, the greeting is
\* sent, the transport is dropped.
HandlerRun(h) ==
    /\ status = "running" /\ running = h /\ task[h].pc = "run"
    /\ LET unawaited == delay_from(now, HandlerDelaySecs * 1000) IN
       task' = [task EXCEPT ![h].pc = "done", ![h].before = now,
                            ![h].delay = NoDelay,
                            ![h].sent = [done |-> TRUE, started |-> now, at |-> now]]
    /\ pipe' = [pipe EXCEPT ![task[h].conn] =
                    [buf |-> Append(@.buf, Greeting), closed |-> TRUE, reader |-> NoTask]]
    /\ ready' = wake(ready, pipe[task[h].conn].reader)
    /\ Yield
    /\ UNCHANGED <<lvars, dvars, cfg, wheel, status, adv, remote>>

\* The root of the "spawn" application: spawn_with_result(&env, f), then
\* await what it returned.
WaiterStart ==
    /\ status = "running" /\ running = WaiterTask /\ task[WaiterTask].pc = "start"
    /\ LET r == spawn_with_result(ready, RemoteTask) IN
       /\ ready' = r.ready
       /\ remote' = [remote EXCEPT !.spawned = @ + Occurrences(r.ready, r.handle)
                                                 - Occurrences(ready, r.handle)]
       /\ task' = [task EXCEPT ![WaiterTask].pc = "await",
                               ![RemoteTask].pc = IF cfg.wait > 0 THEN "sleep" ELSE "finish",
                               ![RemoteTask].before = now,
                               ![RemoteTask].delay = IF cfg.wait > 0
                                                     THEN delay_from(now, cfg.wait)
                                                     ELSE NoDelay]
    /\ UNCHANGED <<lvars, dvars, cfg, running, wheel, pipe, status, adv>>

\* RemoteHandle::poll: the output once it was sent, Pending before.
WaiterAwait ==
    /\ status = "running" /\ running = WaiterTask /\ task[WaiterTask].pc = "await"
    /\ IF remote.sent
       THEN /\ task' = [task EXCEPT ![WaiterTask].pc = "done",
                                    ![WaiterTask].value = remote.value]
            /\ status' = "done"
            /\ UNCHANGED remote
       ELSE /\ remote' = [remote EXCEPT !.rx_task = WaiterTask]
            /\ UNCHANGED <<task, status>>
    /\ Yield
    /\ UNCHANGED <<lvars, dvars, cfg, ready, wheel, pipe, adv>>

\* The wrapped future f while it sleeps.
RemoteSleep ==
    /\ status = "running" /\ running = RemoteTask /\ task[RemoteTask].pc = "sleep"
    /\ IF delay_poll(task[RemoteTask].delay, now) = "Pending"
       THEN /\ wheel' = wheel_insert(wheel, task[RemoteTask].delay.deadline, RemoteTask)
            /\ Yield
            /\ UNCHANGED task
       ELSE /\ task' = [task EXCEPT ![RemoteTask].pc = "finish",
                                    ![RemoteTask].delay = NoDelay]
            /\ UNCHANGED <<wheel, running>>
    /\ UNCHANGED <<lvars, dvars, cfg, ready, pipe, status, adv, remote>>

\* f completes: Remote sends its output through the one-shot channel.
RemoteFinish ==
    /\ status = "running" /\ running = RemoteTask /\ task[RemoteTask].pc = "finish"
    /\ task' = [task EXCEPT ![RemoteTask].pc = "done", ![RemoteTask].value = cfg.value]
    /\ remote' = [remote EXCEPT !.sent = TRUE, !.value = cfg.value, !.rx_task = NoTask]
    /\ ready' = wake(ready, remote.rx_task)
    /\ Yield
    /\ UNCHANGED <<lvars, dvars, cfg, wheel, pipe, status, adv>>

\* The executor at quiescence with the root pending: jump to the earliest
\* pending deadline and wake what is due.
Advance ==
    /\ status = "running" /\ quiescent(ready, running)
    /\ LET e == peek_earliest(wheel) IN
       /\ e.some /\ e.instant > now /\ e.instant <= MaxExecClock
       /\ now' = e.instant
       /\ ready' = wake_all(ready, pop_ready(wheel, e.instant))
       /\ wheel' = wheel_after(wheel, e.instant)
       /\ adv' = [count |-> 1, from |-> now, to |-> e.instant,
                  woken |-> pop_ready(wheel, e.instant),
                  skipped |-> \E d \in AllDeadlines(wheel) : d < e.instant]
    /\ UNCHANGED <<net, lst, clients, nextConn, hist, last, call, dvars, cfg, running,
                   task, pipe, status, remote>>

\* Mutant of Deadlock: the executor stays in its loop without reporting.
Deadlock_hang ==
    /\ status = "running" /\ quiescent(ready, running)
    /\ ~peek_earliest(wheel).some
    /\ UNCHANGED vars

\* Quiescence with no pending timer: the executor reports the deadlock.
Deadlock ==
    /\ status = "running" /\ quiescent(ready, running)
    /\ ~peek_earliest(wheel).some
    /\ status' = "deadlock"
    /\ UNCHANGED <<lvars, dvars, cfg, ready, running, wheel, task, pipe, adv, remote>>

NextExec ==
    \/ RootStart
    \/ Dispatch
    \/ \E c \in ClientTasks : ClientConnect(c)
    \/ \E c \in ClientTasks : ClientSleep(c)
    \/ \E c \in ClientTasks : ClientRead(c)
    \/ ServerBind
    \/ ServerAccept
    \/ \E h \in HandlerTasks : HandlerRun(h)
    \/ WaiterStart
    \/ WaiterAwait
    \/ RemoteSleep
    \/ RemoteFinish
    \/ Advance
    \/ Deadlock

SpecExec == InitExec /\ [][NextExec]_vars

\* The executor is one thread that keeps running its loop: a step that can
\* be taken is taken.
SpecExecFair == SpecExec /\ WF_vars(NextExec)

----------------------------------------------------------------------------
\* Claims about the listener and the network, under Spec.

Accepted == last.op = "poll" /\ last.result.kind = "Ok"

\* C1: an accept that returns Ready(Ok(stream, addr)) leaves no injected
\* delay that is still pending (clock before its deadline), even when a
\* connection was already queued.
C1_NoAcceptBeforeDelay ==
    Accepted => ~(lst.delay.some /\ now < lst.delay.deadline)

\* C2: within one accept call the fault injector is consulted exactly once,
\* however many times the accept is polled.
C2_ConsultedOncePerCall ==
    last.op = "poll" => last.call.consults = 1

C4_BrokenPipeIffClosed ==
    last.op = "poll" =>
        /\ (~last.wasOpen /\ last.wasQueued = 0) => last.result.kind = "BrokenPipe"
        /\ last.wasQueued > 0 =>
               (last.result.kind = "Ok" /\ last.result.stream = last.wasHead)
        /\ last.result.kind = "BrokenPipe" => ~last.wasOpen

\* C4 witness: a poll of a closed, drained channel after every connection
\* the model allows was established.
C4_Witness ==
    /\ last.op = "poll" /\ last.result.kind = "BrokenPipe"
    /\ ~last.wasOpen /\ last.wasQueued = 0 /\ nextConn = MaxConns

\* C5: after accept yields a connection the listener holds no delay, and
\* the first poll of every accept call consults the injector.
C5_IdleAfterAccept ==
    last.op = "poll" =>
        /\ last.result.kind = "Ok" => lst.delay = NoDelay
        /\ last.call.polls = 1 => last.consulted

\* C6: the clock moves only when no task is runnable: at every step that
\* changes the clock the ready queue is empty and no task is being polled.
C6_AdvanceOnlyWhenQuiescent ==
    [][now' # now => (ready = <<>> /\ running = NoTask)]_vars

\* C6 witness: the clock has just advanced while the server is blocked in
\* accept with its injected delay still registered in the wheel.
C6_Witness ==
    /\ adv.count > 0 /\ adv.to = now /\ running = NoTask /\ ready # <<>>
    /\ task[ServerTask].pc = "accept" /\ lst.delay.some
    /\ \E i \in DOMAIN wheel :
          wheel[i] = TimerEntry(lst.delay.deadline, ServerTask)

\* C7: a step that changes the clock sets it to the earliest deadline that
\* is pending (not cancelled) in the wheel, and that is later than the clock.
C7_AdvanceToEarliestPending ==
    [][now' # now =>
          /\ PendingDeadlines(wheel) # {}
          /\ now' = SetMin(PendingDeadlines(wheel))
          /\ now' > now]_vars

\* C7 witness: the clock has advanced past a cancelled entry that was
\* earlier than every pending one, with a later deadline still pending.
C7_Witness ==
    /\ adv.count > 0 /\ adv.to = now /\ adv.skipped
    /\ PendingDeadlines(wheel) # {}

\* C8: a task that awaited delay_from(dur) observes now() at or after the
\* now() it captured before the call plus dur.
C8_DelayNotEarly ==
    \A c \in ClientTasks :
        task[c].slept.done =>
            task[c].slept.after >= task[c].slept.before + task[c].slept.dur

\* C8 witness: a delay_from called when the clock had already advanced has
\* completed.
C8_Witness ==
    \E c \in ClientTasks : task[c].slept.done /\ task[c].slept.before > 0

\* C11: in the greet scenario (the server spawned, the client as the root
\* future, retrying a refused connect after 1 s) block_on eventually
\* returns, the client having read exactly the line the server sent, at a
\* logical time between 1 s and 1 s + 10 s.
GreetScenario == cfg.app = "greet" /\ cfg.target = ListenAddr

C11_GreetCompletes ==
    /\ GreetScenario ~> (status = "done")
    /\ []((GreetScenario /\ status # "running") =>
            /\ status = "done"
            /\ task[RootTask].line = Greeting
            /\ now >= RetrySecs * 1000
            /\ now <= RetrySecs * 1000 + AcceptDelayMaxMs)

\* C11 witness: block_on has returned in the greet scenario, on a run where
\* the accept that took the client's connection had a delay injected.
C11_Witness ==
    /\ GreetScenario /\ status = "done" /\ task[RootTask].line = Greeting
    /\ cfg.extra = 0 /\ lst.delay.some

\* C12: spawn_with_result schedules the future exactly once, and what it
\* returns completes only after the future has completed, with exactly the
\* future's output.
C12_SpawnWithResult ==
    cfg.app = "spawn" =>
        /\ task[WaiterTask].pc # "start" => remote.spawned = 1
        /\ task[WaiterTask].pc = "done" =>
               /\ task[RemoteTask].pc = "done"
               /\ task[WaiterTask].value = task[RemoteTask].value
               /\ task[WaiterTask].value = cfg.value

\* C12 witness: the awaiting root has the output of a future that slept
\* before it returned.
C12_Witness ==
    /\ cfg.app = "spawn" /\ cfg.wait > 0 /\ now > 0
    /\ task[WaiterTask].pc = "done" /\ task[WaiterTask].value = cfg.value

\* No ready task, nothing running, the root incomplete and no pending timer.
Stuck ==
    /\ status = "running" /\ quiescent(ready, running)
    /\ PendingDeadlines(wheel) = {}

\* C13: when the ready queue is empty, the root is pending and the wheel
\* holds no pending deadline, the next step of block_on reports the deadlock
\* and does not move the clock; a server accepting on a listener nobody
\* connects to ends this way, after any injected accept delay has expired.
C13_DeadlockReported ==
    /\ [][Stuck => (status' = "deadlock" /\ now' = now)]_vars
    /\ Stuck ~> (status = "deadlock")
    /\ (cfg.app = "serve") ~> (status = "deadlock")
    /\ []((cfg.app = "serve" /\ status = "deadlock") =>
            /\ task[ServerTask].pc = "accept"
            /\ lst.delay.some => lst.delay.deadline <= now)

\* C13 witness: the lone server was held by an injected accept delay, the
\* clock moved to its deadline, and then the deadlock was reported.
C13_Witness ==
    /\ cfg.app = "serve" /\ status = "deadlock"
    /\ task[ServerTask].pc = "accept" /\ now >= AcceptDelayMinMs

\* A listener with its TTL left out.
WithoutTtl(self) == [self EXCEPT !.ttl = U32Max]

\* C14: ttl() is u32::MAX on a fresh listener and otherwise the value of the
\* most recent set_ttl; set_ttl leaves the pending delay, the inbound channel
\* and the local address alone, so two listeners that differ only in the
\* TTLs set on them hold the same state and return the same accept outcome.
C14_TtlIsPlainScalar ==
    /\ \A i \in AcceptRuns : ttl(runs[i].lst) = runs[i].ttlDue
    /\ ttl(runs[IncomingRun].lst) = U32Max
    /\ WithoutTtl(runs[1].lst) = WithoutTtl(runs[2].lst)
    /\ runs[1].out = runs[2].out

\* C14 witness: the TTL was set to 64 on the first listener and is u32::MAX
\* on the second, and the same poll of accept returned a connection in both.
C14_Witness ==
    /\ runs[1].ttlDue = U32(0, 64) /\ ttl(runs[1].lst) = U32(0, 64)
    /\ runs[2].ttlDue = U32Max /\ ttl(runs[2].lst) = U32Max
    /\ runs[1].polls >= 2 /\ runs[1].out.kind = "Ok"
    /\ runs[2].out.kind = "Ok"

\* What one consultation at the given clock can return with the accept
\* path's parameters.
AcceptDelays(clock) ==
    {maybe_random_delay([r1 |-> r1, r2 |-> r2], clock, AcceptDelayPercent,
                        AcceptDelayMinMs, AcceptDelayMaxMs).opt :
        r1 \in RngValues, r2 \in RngValues}

\* The raw RNG values on which the Bernoulli draw of the accept path hits.
AcceptHits == {r \in RngValues : next_bool(r, AcceptDelayPercent)}

C16_HandlerDelaysResponse ==
    \A h \in HandlerTasks :
        task[h].sent.done =>
            task[h].sent.at >= task[h].sent.started + HandlerDelaySecs * 1000

QueuedIds(self) ==
    [i \in 1 .. Len(self.new_sockets.queue) |-> self.new_sockets.queue[i].conn]

\* C18: the connections accept has returned, followed by those still in the
\* inbound channel, are exactly the connections pushed to the listener, in
\* the order they were pushed: none twice, none skipped, none out of order,
\* whatever the injector returned in between.
C18_AcceptedInPushOrder ==
    lst.alive => hist.accepted \o QueuedIds(lst) = hist.pushed

\* C18 witness: with two connections queued, a poll that drew a delay
\* returned the first and left the second queued.
C18_Witness ==
    /\ last.op = "poll" /\ last.result.kind = "Ok" /\ last.wasQueued = 2
    /\ last.injected.some
    /\ Len(hist.accepted) = 1 /\ Len(hist.pushed) = 2

\* The server task is parked: inside accept, not being polled, not ready.
ServerParked ==
    /\ lst.alive /\ task[ServerTask].pc = "accept"
    /\ running # ServerTask /\ ~InQueue(ready, ServerTask)

Range(q) == {q[i] : i \in DOMAIN q}

\* C19: no wakeup is lost on accept.  A server parked in accept has polled
\* the inbound channel in its last poll: the channel is empty and holds the
\* server's waker.  So, the executor being fair, every connection pushed to
\* the listener is eventually returned by accept.
C19_NoLostWakeup ==
    /\ [](ServerParked =>
            /\ lst.new_sockets.queue = <<>>
            /\ lst.new_sockets.recv_task = ServerTask)
    /\ \A n \in 1 .. (1 + MaxExtra) :
          (n \in Range(hist.pushed)) ~> (n \in Range(hist.accepted))

\* C19 witness: a connection pushed after the clock had moved, while the
\* server was parked, has been returned by accept as the second one.
C19_Witness ==
    /\ Len(hist.accepted) = 2 /\ hist.accepted = hist.pushed
    /\ now > 0 /\ cfg.extra = 1

\* What the stream must yield for an outcome of accept.
ItemFor(out) ==
    IF out.kind = "Pending" THEN PollPending
    ELSE IF out.kind = "Ok" THEN PollSomeOk(out.stream)
    ELSE PollSomeErr("BrokenPipe")

\* C20: polled in step with accept on a listener in the same state, the
\* Incoming stream yields Some(Ok(stream)) exactly when accept returns that
\* stream, is Pending exactly when accept is, leaves the same connections
\* queued, and never ends: where accept returns BrokenPipe (channel closed
\* and drained) it yields Some(Err(BrokenPipe)), not None.
C20_IncomingFollowsAccept ==
    /\ runs[IncomingRun].item = ItemFor(runs[1].out)
    /\ runs[IncomingRun].item # PollNone
    /\ WithoutTtl(runs[IncomingRun].lst) = WithoutTtl(runs[1].lst)
    /\ runs[IncomingRun].pos = runs[1].pos
    /\ (runs[IncomingRun].item.some /\ ~runs[IncomingRun].item.ok) =>
          /\ ~runs[IncomingRun].lst.new_sockets.open
          /\ runs[IncomingRun].lst.new_sockets.queue = <<>>

\* C20 witness: the stream yielded both connections and then, the channel
\* closed and drained, Some(Err(BrokenPipe)).
C20_Witness ==
    /\ runs[IncomingRun].arrivals = 2 /\ runs[IncomingRun].polls = 3
    /\ runs[IncomingRun].item = PollSomeErr("BrokenPipe")
    /\ runs[IncomingRun].lst.new_sockets.queue = <<>>

\* C9: the address accept returns is the peer address of the accepted
\* stream and the local address of the client stream of that connection.
C9_AcceptAddrIsClientLocal ==
    Accepted =>
        /\ last.result.addr = last.result.stream.peer_addr
        /\ \E c \in clients : c.conn = last.result.stream.conn
        /\ \A c \in clients : c.conn = last.result.stream.conn =>
               (c.local_addr = last.result.addr /\ c.peer_addr = ListenAddr)

\* C9 witness: the second connection is accepted.
C9_Witness == Accepted /\ last.result.stream.conn = 2

\* C10: connect to an address with no binding is refused at once, the clock
\* unchanged; bind on a bound address fails with AddressInUse and leaves the
\* binding and its listener as they were.
C10_RefusedAndInUse ==
    /\ (last.op = "connect" /\ ~last.netBefore[last.addr]) =>
           (last.result.kind = "ConnectionRefused" /\ now = last.clockBefore
            /\ lst = last.lstBefore /\ net = last.netBefore)
    /\ (last.op = "bind" /\ last.netBefore[last.addr]) =>
           (last.result.kind = "AddressInUse" /\ net = last.netBefore
            /\ lst = last.lstBefore /\ net[last.addr])

\* C10 witness: a bind refused with AddressInUse, a connection still queued
\* on the existing listener, right after a refused connect.
C10_Witness ==
    /\ last.op = "bind" /\ last.result.kind = "AddressInUse"
    /\ last.afterRefused /\ lst.new_sockets.queue # <<>>

====
